---- MODULE Spec2Model ----
(***************************************************************************)
(* Model of libyul/optimiser/UnusedFunctionsCommon.h:                      *)
(*   applyBooleanMask, wasPruned and createReplacement.                    *)
(*                                                                         *)
(* Three specifications share the module:                                  *)
(*   SpecMask   - applyBooleanMask applied to bounded vectors and masks    *)
(*   SpecPruned - wasPruned applied to bounded bodies and dialects         *)
(*   Spec       - a sequential driver calling createReplacement on the     *)
(*                functions of a program, sharing one NameDispenser        *)
(***************************************************************************)
EXTENDS Integers, Sequences, FiniteSets, TLC

VARIABLES
    funs,        \* the program's function definitions, in program order
    created,     \* the functions returned by createReplacement so far
    usedNames,   \* NameDispenser: the names it will not hand out
    pc,          \* driver: index of the next function, or 0 once aborted
    last,        \* the last createReplacement call: its input function, outcome, result
    tblParameters,           \* the pass's parameter usage table
    tblReturnVariables,      \* the pass's return-variable usage table
    tblTranslations,         \* the pass's rename table
    mVec,        \* applyBooleanMask: argument _vec
    mMask,       \* applyBooleanMask: argument _mask
    mOut,        \* applyBooleanMask: outcome of the call
    pFun,        \* wasPruned: argument _f
    pDialect,    \* wasPruned: the builtin names of argument _dialect
    pOut         \* wasPruned: outcomes of the evaluations made so far

vars == <<funs, created, usedNames, pc, last, tblParameters, tblReturnVariables,
          tblTranslations, mVec, mMask, mOut, pFun, pDialect, pOut>>

-----------------------------------------------------------------------------
(* Bounds *)

\* longest vector and mask handed to applyBooleanMask in SpecMask
MaxLen == 3
\* longest usage mask stored in a usage table in Spec
MaxMaskLen == 2
\* largest numeric suffix of a name (f, f_1, ..., f_MaxSuffix)
MaxSuffix == 3
\* number of times SpecPruned evaluates wasPruned on the same function
MaxEvals == 2
\* longest function body handed to wasPruned in SpecPruned
MaxStatements == 2

-----------------------------------------------------------------------------
(* Names, typed names, expressions, statements *)

\* YulString: a base identifier plus a numeric suffix, "a" = (a,0), "a_2" = (a,2)
Nm(b, k) == [base |-> b, n |-> k]

Bases == {"f", "g", "h", "a", "b", "x", "y", "sstore"}

Names == [base : Bases, n : 0..MaxSuffix]

\* all boolean vectors of exactly n entries
BoolVecs(n) == [1..n -> BOOLEAN]

\* all boolean vectors of at most n entries
BoolVecsUpTo(n) == UNION {BoolVecs(k) : k \in 0..n}

\* all vectors over S of at most n entries
VecsUpTo(S, n) == UNION {[1..k -> S] : k \in 0..n}

TypedName(loc, name, type) == [location |-> loc, name |-> name, type |-> type]

Identifier(loc, name) == [kind |-> "Identifier", location |-> loc, name |-> name]

Literal(loc) == [kind |-> "Literal", location |-> loc]

FunctionCall(loc, fname, args) ==
    [kind |-> "FunctionCall", location |-> loc,
     functionName |-> Identifier(loc, fname), arguments |-> args]

Assignment(loc, names, value) ==
    [kind |-> "Assignment", location |-> loc, variableNames |-> names, value |-> value]

ExpressionStatement(loc, expr) ==
    [kind |-> "ExpressionStatement", location |-> loc, expression |-> expr]

\* a statement of any alternative other than Assignment and ExpressionStatement
OtherStatement(k, loc) == [kind |-> k, location |-> loc]

Block(loc, stmts) == [location |-> loc, statements |-> stmts]

FunctionDefinition(loc, name, params, rets, body) ==
    [location |-> loc, name |-> name, parameters |-> params,
     returnVariables |-> rets, body |-> body]

-----------------------------------------------------------------------------
(* applyBooleanMask *)

\* a faulty variant: the loop starts at the second entry
RECURSIVE applyBooleanMaskLoopSkipFirst(_, _, _, _)
applyBooleanMaskLoopSkipFirst(vec, mask, i, ret) ==
    LET j == IF i = 1 THEN 2 ELSE i
    IN  IF j > Len(mask) THEN ret
        ELSE applyBooleanMaskLoopSkipFirst(vec, mask, j + 1,
                 IF mask[j] THEN Append(ret, vec[j]) ELSE ret)

\* for (size_t i = 0; i < _mask.size(); ++i) if (_mask[i]) ret.push_back(_vec[i]);
RECURSIVE applyBooleanMaskLoop(_, _, _, _)
applyBooleanMaskLoop(vec, mask, i, ret) ==
    IF i > Len(mask) THEN ret
    ELSE applyBooleanMaskLoop(vec, mask, i + 1,
             IF mask[i] THEN Append(ret, vec[i]) ELSE ret)

\* a faulty variant: a mask shorter than the vector is accepted
maskAssertAtMost(vec, mask) == Len(mask) <= Len(vec)

\* yulAssert(_vec.size() == _mask.size(), "")
maskAssert(vec, mask) == Len(vec) = Len(mask)

\* the value returned when the assertion passes
applyBooleanMask(vec, mask) == applyBooleanMaskLoop(vec, mask, 1, <<>>)

-----------------------------------------------------------------------------
(* wasPruned *)

\* _dialect.builtin(name): non-null exactly for the dialect's builtin names
builtin(dialect, name) == name \in dialect

\* a faulty variant: the callee is never looked up in the dialect
wasPrunedAnyCall(f, dialect) ==
    LET stmts == f.body.statements
    IN  IF stmts = <<>> THEN TRUE
        ELSE IF Len(stmts) = 1
        THEN LET e == stmts[1]
             IN  IF e.kind = "Assignment"
                 THEN e.value.kind = "FunctionCall"
                 ELSE IF e.kind = "ExpressionStatement"
                 THEN e.expression.kind = "FunctionCall"
                 ELSE FALSE
        ELSE FALSE

wasPruned(f, dialect) ==
    LET stmts == f.body.statements
    IN  IF stmts = <<>> THEN TRUE
        ELSE IF Len(stmts) = 1
        THEN LET e == stmts[1]
             IN  IF e.kind = "Assignment"
                 THEN /\ e.value.kind = "FunctionCall"
                      /\ ~builtin(dialect, e.value.functionName.name)
                 ELSE IF e.kind = "ExpressionStatement"
                 THEN /\ e.expression.kind = "FunctionCall"
                      /\ ~builtin(dialect, e.expression.functionName.name)
                 ELSE FALSE
        ELSE FALSE

-----------------------------------------------------------------------------
(* createReplacement *)

\* NameDispenser::newName(hint): the names it may return, given the names it
\* holds as used; the returned name is built from the hint and is unused
NameDispenser_newName(hint, used) == {m \in Names : m.base = hint.base /\ m \notin used}

\* a faulty variant: the typed name is returned under its old name
generateNameKeepsName(t, fresh) == TypedName(t.location, t.name, t.type)

\* the lambda generateName, given the name the dispenser returned for t.name
generateName(t, fresh) == TypedName(t.location, fresh, t.type)

\* util::applyMap(list, generateName): every renamed list the dispenser can
\* produce, each with the dispenser's used names after the last request
RECURSIVE applyMapGenerateName(_, _)
applyMapGenerateName(list, used) ==
    IF list = <<>> THEN {[out |-> <<>>, used |-> used]}
    ELSE UNION {
           {[out |-> <<generateName(Head(list), fresh)>> \o r.out, used |-> r.used] :
               r \in applyMapGenerateName(Tail(list), used \cup {fresh})} :
           fresh \in NameDispenser_newName(Head(list).name, used)}

\* a faulty variant: the usage tables are consulted under the function's current name
lookupKeyCurrentName(oldName, newName) == oldName

\* the key of _unusedParameters.count/at and _unusedReturnVariables.count/at
lookupKey(oldName, newName) == newName

\* a faulty variant: the mask is ignored
reducedIgnoresMask(list, table, key) == list

\* if (table.count(newName)) applyBooleanMask(list, table.at(newName)) else list
reduced(list, table, key) ==
    IF key \in DOMAIN table THEN applyBooleanMask(list, table[key]) ELSE list

\* the yulAssert of applyBooleanMask, reached only when the table has the key
maskFits(list, table, key) == key \in DOMAIN table => maskAssert(list, table[key])

\* a faulty variant: the new function is named like the function it replaces
newFunctionNamedAsOld(old, newName, functionArguments, returnVariables) ==
    FunctionDefinition(old.location, old.name, functionArguments, returnVariables, old.body)

\* a faulty variant: the body is copied nowhere, the new function stays empty
newFunctionEmptyBody(old, newName, functionArguments, returnVariables) ==
    FunctionDefinition(old.location, newName, functionArguments, returnVariables,
                       Block(old.location, <<>>))

\* FunctionDefinition newFunction{loc, newName, functionArguments, returnVariables,
\* {loc, {}}}; std::swap(newFunction.body, _old.body)
newFunctionOf(old, newName, functionArguments, returnVariables) ==
    FunctionDefinition(old.location, newName, functionArguments, returnVariables, old.body)

\* the call to newFunction.name with the reduced renamed parameters as arguments
forwardingCall(loc, newFunction, reducedRenamedParameters) ==
    FunctionCall(loc, newFunction.name,
        [k \in 1..Len(reducedRenamedParameters) |->
            Identifier(loc, reducedRenamedParameters[k].name)])

\* a faulty variant: the call's value is always discarded
forwardingStatementNoAssignment(loc, newFunction, reducedRenamedParameters, reducedRenamedReturnVariables) ==
    ExpressionStatement(loc, forwardingCall(loc, newFunction, reducedRenamedParameters))

\* if (!newFunction.returnVariables.empty()) Assignment else ExpressionStatement
forwardingStatement(loc, newFunction, reducedRenamedParameters, reducedRenamedReturnVariables) ==
    IF newFunction.returnVariables # <<>>
    THEN Assignment(loc,
             [k \in 1..Len(reducedRenamedReturnVariables) |->
                 Identifier(loc, reducedRenamedReturnVariables[k].name)],
             forwardingCall(loc, newFunction, reducedRenamedParameters))
    ELSE ExpressionStatement(loc, forwardingCall(loc, newFunction, reducedRenamedParameters))

\* a faulty variant: the stub receives the reduced lists
stubOfReducedLists(old, renamedParameters, renamedReturnVariables, reducedRenamedParameters, reducedRenamedReturnVariables, newFunction) ==
    [old EXCEPT
        !.parameters = reducedRenamedParameters,
        !.returnVariables = reducedRenamedReturnVariables,
        !.body = Block(old.location,
                     <<forwardingStatement(old.location, newFunction,
                           reducedRenamedParameters, reducedRenamedReturnVariables)>>)]

\* _old after the three swaps and the emplace_back of the forwarding statement
stubOf(old, renamedParameters, renamedReturnVariables, reducedRenamedParameters, reducedRenamedReturnVariables, newFunction) ==
    [old EXCEPT
        !.parameters = renamedParameters,
        !.returnVariables = renamedReturnVariables,
        !.body = Block(old.location,
                     <<forwardingStatement(old.location, newFunction,
                           reducedRenamedParameters, reducedRenamedReturnVariables)>>)]

\* a faulty variant: the lists are swapped into _old before the masks are applied
oldAtThrowSwapped(old, renamedParameters, renamedReturnVariables) ==
    [old EXCEPT !.parameters = renamedParameters,
                !.returnVariables = renamedReturnVariables]

\* _old when applyBooleanMask throws: the swaps have not run
oldAtThrow(old, renamedParameters, renamedReturnVariables) == old

\* the value of a call that returned no function
NoFunction == FunctionDefinition("", Nm("f", 0), <<>>, <<>>, Block("", <<>>))

\* createReplacement from the renamed lists on: the masks, the new function, the stub
replacementWith(old, unusedParameters, unusedReturnVariables, newName, renamedParameters, renamedReturnVariables) ==
    LET key == lookupKey(old.name, newName)
    IN  IF ~maskFits(old.parameters, unusedParameters, key)
           \/ ~maskFits(old.returnVariables, unusedReturnVariables, key)
        THEN [outcome |-> "maskMismatch",
              old |-> oldAtThrow(old, renamedParameters, renamedReturnVariables),
              newFunction |-> NoFunction,
              keys |-> {key}]
        ELSE LET functionArguments == reduced(old.parameters, unusedParameters, key)
                 reducedRenamedParameters == reduced(renamedParameters, unusedParameters, key)
                 returnVariables == reduced(old.returnVariables, unusedReturnVariables, key)
                 reducedRenamedReturnVariables ==
                     reduced(renamedReturnVariables, unusedReturnVariables, key)
                 newFunction == newFunctionOf(old, newName, functionArguments, returnVariables)
             IN  [outcome |-> "ok",
                  old |-> stubOf(old, renamedParameters, renamedReturnVariables,
                                 reducedRenamedParameters, reducedRenamedReturnVariables,
                                 newFunction),
                  newFunction |-> newFunction,
                  keys |-> {key}]

\* every outcome of createReplacement(_old, _unusedParameters, _unusedReturnVariables,
\* _nameDispenser, _inverseTranslations), with the dispenser's state after it
createReplacement(old, unusedParameters, unusedReturnVariables, nameDispenser, inverseTranslations) ==
    IF old.name \notin DOMAIN inverseTranslations
    THEN {[outcome |-> "renameMiss", old |-> old, newFunction |-> NoFunction,
           keys |-> {}, nameDispenser |-> nameDispenser, requested |-> 0]}
    ELSE UNION {
           {LET res == replacementWith(old, unusedParameters, unusedReturnVariables,
                           inverseTranslations[old.name], rp.out, rr.out)
            IN  [outcome |-> res.outcome, old |-> res.old,
                 newFunction |-> res.newFunction, keys |-> res.keys,
                 nameDispenser |-> rr.used,
                 requested |-> Len(old.parameters) + Len(old.returnVariables)] :
              rr \in applyMapGenerateName(old.returnVariables, rp.used)} :
           rp \in applyMapGenerateName(old.parameters, nameDispenser)}

-----------------------------------------------------------------------------
(* The names of a program *)

Range(seq) == {seq[k] : k \in 1..Len(seq)}

RECURSIVE NamesOfExpression(_)
NamesOfExpression(e) ==
    IF e.kind = "FunctionCall"
    THEN {e.functionName.name}
         \cup UNION {NamesOfExpression(e.arguments[k]) : k \in 1..Len(e.arguments)}
    ELSE IF e.kind = "Identifier" THEN {e.name}
    ELSE {}

NamesOfStatement(st) ==
    IF st.kind = "Assignment"
    THEN {id.name : id \in Range(st.variableNames)} \cup NamesOfExpression(st.value)
    ELSE IF st.kind = "ExpressionStatement" THEN NamesOfExpression(st.expression)
    ELSE {}

\* the names of a function's parameter list and return-variable list
SignatureNames(f) ==
    {t.name : t \in Range(f.parameters)} \cup {t.name : t \in Range(f.returnVariables)}

NamesOfFunction(f) ==
    {f.name} \cup SignatureNames(f)
    \cup UNION {NamesOfStatement(st) : st \in Range(f.body.statements)}

\* every name live in a program made of the functions fs
LiveNames(fs) == UNION {NamesOfFunction(f) : f \in Range(fs)}

-----------------------------------------------------------------------------
(* Inputs *)

\* the name a renamed function f_k is translated back to
Canonical(name) == Nm(name.base, 0)

Prefixes(seq) == {SubSeq(seq, 1, k) : k \in 0..Len(seq)}

FParameters == <<TypedName("La", Nm("a", 0), "u256"), TypedName("Lb", Nm("b", 0), "bool")>>

FReturnVariables == <<TypedName("Lx", Nm("x", 0), "u256"), TypedName("Ly", Nm("y", 0), "bool")>>

SstoreStatement ==
    ExpressionStatement("Ls", FunctionCall("Ls", Nm("sstore", 0), <<Literal("Ls"), Literal("Ls")>>))

FBodies == {<<>>, <<SstoreStatement>>, <<SstoreStatement, OtherStatement("Leave", "Ll")>>}

\* function f_1(a, b) -> x, y and the functions with a prefix of its lists
FPool ==
    {FunctionDefinition("Lf", Nm("f", 1), ps, rs, Block("Lf", b)) :
        ps \in Prefixes(FParameters), rs \in Prefixes(FReturnVariables), b \in FBodies}

\* function g_1(a_1) -> x_1 { x_1 := h(a_1) }
G ==
    FunctionDefinition("Lg", Nm("g", 1),
        <<TypedName("Lg", Nm("a", 1), "u256")>>,
        <<TypedName("Lg", Nm("x", 1), "u256")>>,
        Block("Lg", <<Assignment("Lg", <<Identifier("Lg", Nm("x", 1))>>,
                         FunctionCall("Lg", Nm("h", 0), <<Identifier("Lg", Nm("a", 1))>>))>>))

Programs == {<<f, G>> : f \in FPool}

\* what a usage table holds for one function: nothing, or a mask
NoEntry == [present |-> FALSE, mask |-> <<>>]

Entry(m) == [present |-> TRUE, mask |-> m]

\* the entries tried for a list of n names: none, every mask of n entries, and
\* one mask of every other length
MaskEntries(n) ==
    {NoEntry} \cup {Entry(m) : m \in BoolVecs(n)}
    \cup {Entry([i \in 1..k |-> TRUE]) : k \in (0..MaxMaskLen) \ {n}}

\* the entries tried for g: none, or the mask that prunes its one name
GEntries == {NoEntry, Entry(<<FALSE>>)}

\* a usage table with the entry fe under f and the entry ge under g
UsageTable(fe, ge) ==
    [k \in (IF fe.present THEN {Nm("f", 0)} ELSE {})
           \cup (IF ge.present THEN {Nm("g", 0)} ELSE {}) |->
        IF k = Nm("f", 0) THEN fe.mask ELSE ge.mask]

\* the rename tables tried: every function of the program to its canonical
\* name, or that table without one of its entries
InverseTranslations(fs) ==
    {[k \in D |-> Canonical(k)] :
        D \in {{f.name : f \in Range(fs)}}
              \cup {{f.name : f \in Range(fs)} \ {h.name} : h \in Range(fs)}}

Elements == {"p", "q", "r"}

\* the statements wasPruned tells apart
PrunedStatements ==
    {Assignment("L", <<Identifier("L", Nm("x", 0))>>, v) :
        v \in {FunctionCall("L", Nm("h", 0), <<Identifier("L", Nm("a", 0))>>),
               FunctionCall("L", Nm("sstore", 0), <<Identifier("L", Nm("a", 0))>>),
               Identifier("L", Nm("a", 0)),
               Literal("L")}}
    \cup {ExpressionStatement("L", v) :
        v \in {FunctionCall("L", Nm("h", 0), <<Identifier("L", Nm("a", 0))>>),
               FunctionCall("L", Nm("sstore", 0), <<Identifier("L", Nm("a", 0))>>),
               Identifier("L", Nm("a", 0)),
               Literal("L")}}
    \cup {OtherStatement("VariableDeclaration", "L"), OtherStatement("Leave", "L")}

Dialects == SUBSET {Nm("h", 0), Nm("sstore", 0)}

-----------------------------------------------------------------------------
(* State machine *)

NoCall ==
    [idx |-> 0, outcome |-> "none", pre |-> NoFunction, newFunction |-> NoFunction,
     usedBefore |-> {}, liveBefore |-> {}, keys |-> {}, requested |-> 0]

\* the driver is idle: nothing of createReplacement's state
IdleReplacement ==
    /\ funs = <<>> /\ created = <<>> /\ usedNames = {} /\ pc = 0 /\ last = NoCall
    /\ tblParameters = <<>> /\ tblReturnVariables = <<>>
    /\ tblTranslations = <<>>

IdleMask == mVec = <<>> /\ mMask = <<>> /\ mOut = [state |-> "idle", ret |-> <<>>]

IdlePruned == pFun = NoFunction /\ pDialect = {} /\ pOut = <<>>

\* a program, the tables of the pass, and a dispenser that knows every name of
\* the program and every canonical name
Init ==
    /\ funs \in Programs
    /\ \E pe \in MaskEntries(Len(funs[1].parameters)), gpe \in GEntries :
          tblParameters = UsageTable(pe, gpe)
    /\ \E re \in MaskEntries(Len(funs[1].returnVariables)), gre \in GEntries :
          tblReturnVariables = UsageTable(re, gre)
    /\ tblTranslations \in InverseTranslations(funs)
    /\ created = <<>>
    /\ usedNames = LiveNames(funs) \cup {Canonical(f.name) : f \in Range(funs)}
    /\ pc = 1
    /\ last = NoCall
    /\ IdleMask
    /\ IdlePruned

\* the driver hands function i to createReplacement; a failure aborts the pass
CreateReplacement(i) ==
    /\ pc = i
    /\ \E r \in createReplacement(funs[i], tblParameters, tblReturnVariables,
                                  usedNames, tblTranslations) :
          /\ funs' = [funs EXCEPT ![i] = r.old]
          /\ created' = IF r.outcome = "ok" THEN Append(created, r.newFunction) ELSE created
          /\ usedNames' = r.nameDispenser
          /\ pc' = IF r.outcome = "ok" THEN i + 1 ELSE 0
          /\ last' = [idx |-> i, outcome |-> r.outcome, pre |-> funs[i],
                      newFunction |-> r.newFunction, usedBefore |-> usedNames,
                      liveBefore |-> LiveNames(funs \o created),
                      keys |-> r.keys, requested |-> r.requested]
    /\ UNCHANGED <<tblParameters, tblReturnVariables, tblTranslations>>
    /\ UNCHANGED <<mVec, mMask, mOut, pFun, pDialect, pOut>>

Next == \E i \in 1..Len(funs) : CreateReplacement(i)

Spec == Init /\ [][Next]_vars

InitMask ==
    /\ mVec \in VecsUpTo(Elements, MaxLen)
    /\ mMask \in BoolVecsUpTo(MaxLen)
    /\ mOut = [state |-> "idle", ret |-> <<>>]
    /\ IdleReplacement
    /\ IdlePruned

\* one call applyBooleanMask(mVec, mMask): it returns, or the assertion throws
ApplyBooleanMask ==
    /\ mOut.state = "idle"
    /\ mOut' = IF maskAssert(mVec, mMask)
               THEN [state |-> "returned", ret |-> applyBooleanMask(mVec, mMask)]
               ELSE [state |-> "thrown", ret |-> <<>>]
    /\ UNCHANGED <<mVec, mMask, pFun, pDialect, pOut>>
    /\ UNCHANGED <<funs, created, usedNames, pc, last, tblParameters,
                   tblReturnVariables, tblTranslations>>

NextMask == ApplyBooleanMask

SpecMask == InitMask /\ [][NextMask]_vars

InitPruned ==
    /\ pFun \in {FunctionDefinition("L", Nm("f", 0), <<>>, <<>>, Block("L", b)) :
                    b \in VecsUpTo(PrunedStatements, MaxStatements)}
    /\ pDialect \in Dialects
    /\ pOut = <<>>
    /\ IdleReplacement
    /\ IdleMask

\* one evaluation of wasPruned(pFun, pDialect)
WasPruned ==
    /\ Len(pOut) < MaxEvals
    /\ pOut' = Append(pOut, wasPruned(pFun, pDialect))
    /\ UNCHANGED <<pFun, pDialect, mVec, mMask, mOut>>
    /\ UNCHANGED <<funs, created, usedNames, pc, last, tblParameters,
                   tblReturnVariables, tblTranslations>>

NextPruned == WasPruned

SpecPruned == InitPruned /\ [][NextPruned]_vars

-----------------------------------------------------------------------------
(* Properties *)

\* the last call returned a function
Ok == last.outcome = "ok"

\* the function the last call was made on, as it is now
Stub == funs[last.idx]

\* the canonical name of the function of the last call
Key == tblTranslations[last.pre.name]

TrueCount(mask) == Cardinality({i \in DOMAIN mask : mask[i]})

\* the position of the k-th true entry of mask
KthTrue(mask, k) ==
    CHOOSE i \in DOMAIN mask : mask[i] /\ Cardinality({j \in 1..i : mask[j]}) = k

\* the entries of seq at the true positions of mask, in ascending order
Filtered(seq, mask) == [k \in 1..TrueCount(mask) |-> seq[KthTrue(mask, k)]]

\* list filtered by the mask table holds under key, or list when it holds none
Expected(list, table, key) ==
    IF key \in DOMAIN table THEN Filtered(list, table[key]) ELSE list

NamesIn(list) == [k \in 1..Len(list) |-> list[k].name]

\* the dispenser holds every live name as used
DispenserKnowsLiveNames == LiveNames(funs \o created) \subseteq usedNames

\* C1: after a successful createReplacement the stub has exactly as many
\* parameters and as many return variables as the function had before the call,
\* whatever the masks
C1_StubArity ==
    Ok => /\ Len(Stub.parameters) = Len(last.pre.parameters)
          /\ Len(Stub.returnVariables) = Len(last.pre.returnVariables)

C1_Witness ==
    /\ Ok
    /\ Len(last.pre.parameters) = 2
    /\ Len(last.pre.returnVariables) = 2
    /\ Key \in DOMAIN tblParameters /\ tblParameters[Key] = <<FALSE, FALSE>>
    /\ Key \in DOMAIN tblReturnVariables /\ tblReturnVariables[Key] = <<FALSE, TRUE>>

\* the call inside the stub's forwarding statement
StubCall ==
    LET st == Stub.body.statements[1]
    IN  IF st.kind = "Assignment" THEN st.value ELSE st.expression

\* C2: after a successful createReplacement the stub's body is one statement that
\* forwards to the returned function: a call of the returned function's name
\* whose arguments are the fresh parameter names at the true positions of the
\* parameter mask (all of them without a mask), assigned to the fresh return
\* names at the true positions of the return mask when the returned function
\* has return variables, and a bare expression statement when it has none
C2_Forwarding ==
    Ok => /\ Len(Stub.body.statements) = 1
          /\ Stub.body.statements[1].kind \in {"Assignment", "ExpressionStatement"}
          /\ StubCall.kind = "FunctionCall"
          /\ StubCall.functionName.name = last.newFunction.name
          /\ \A k \in 1..Len(StubCall.arguments) :
                StubCall.arguments[k].kind = "Identifier"
          /\ NamesIn(StubCall.arguments)
                = NamesIn(Expected(Stub.parameters, tblParameters, Key))
          /\ Len(StubCall.arguments) = Len(last.newFunction.parameters)
          /\ last.newFunction.returnVariables # <<>> =>
                /\ Stub.body.statements[1].kind = "Assignment"
                /\ NamesIn(Stub.body.statements[1].variableNames)
                      = NamesIn(Expected(Stub.returnVariables, tblReturnVariables, Key))
                /\ Len(Stub.body.statements[1].variableNames)
                      = Len(last.newFunction.returnVariables)
          /\ last.newFunction.returnVariables = <<>> =>
                Stub.body.statements[1].kind = "ExpressionStatement"

C2_Witness ==
    /\ Ok
    /\ Len(last.pre.parameters) = 2
    /\ Len(last.pre.returnVariables) = 2
    /\ Key \in DOMAIN tblParameters /\ tblParameters[Key] = <<TRUE, FALSE>>
    /\ Key \in DOMAIN tblReturnVariables /\ tblReturnVariables[Key] = <<FALSE, TRUE>>
    /\ Stub.body.statements[1].kind = "Assignment"

\* C3: the returned function's parameter list is the original parameter list
\* filtered by the mask the parameter table holds under the canonical name, or
\* the whole list when the table holds none; likewise, independently, for the
\* return variables
C3_NewFunctionLists ==
    Ok => /\ last.newFunction.parameters
                = Expected(last.pre.parameters, tblParameters, Key)
          /\ last.newFunction.returnVariables
                = Expected(last.pre.returnVariables, tblReturnVariables, Key)

C3_Witness ==
    /\ Ok
    /\ Len(last.pre.parameters) = 2
    /\ Key \in DOMAIN tblParameters /\ tblParameters[Key] = <<FALSE, TRUE>>
    /\ Key \notin DOMAIN tblReturnVariables
    /\ Len(last.newFunction.returnVariables) = 2
    /\ Len(last.newFunction.parameters) = 1

\* C4: with a dispenser that returns only unused names, after every call of the
\* driver the names of the stub's parameter and return lists are none of the
\* names live in the program before the call, none of the names the dispenser
\* held as used before the call (the names of earlier calls among them), and
\* pairwise distinct
C4_FreshNames ==
    Ok => /\ SignatureNames(Stub) \cap last.liveBefore = {}
          /\ SignatureNames(Stub) \cap last.usedBefore = {}
          /\ SignatureNames(Stub) \cap SignatureNames(last.newFunction) = {}
          /\ \A j \in 1..(last.idx - 1) :
                SignatureNames(Stub) \cap SignatureNames(funs[j]) = {}
          /\ Cardinality(SignatureNames(Stub))
                = Len(Stub.parameters) + Len(Stub.returnVariables)

C4_Witness ==
    /\ Ok
    /\ last.idx = 2
    /\ Len(funs[1].parameters) = 2
    /\ Len(funs[1].returnVariables) = 2
    /\ Len(Stub.parameters) = 1

\* C5: for a vector and a mask of the same length applyBooleanMask returns the
\* entries of the vector at the true positions of the mask in ascending order:
\* as many as the mask has true entries, the vector itself under an all-true
\* mask and the empty vector under an all-false mask
C5_MaskFilter ==
    (mOut.state # "idle" /\ Len(mVec) = Len(mMask)) =>
        /\ mOut.state = "returned"
        /\ mOut.ret = Filtered(mVec, mMask)
        /\ Len(mOut.ret) = TrueCount(mMask)
        /\ (\A i \in DOMAIN mMask : mMask[i]) => mOut.ret = mVec
        /\ (\A i \in DOMAIN mMask : ~mMask[i]) => mOut.ret = <<>>

C5_Witness ==
    /\ mOut.state = "returned"
    /\ mVec = <<"p", "q", "p">>
    /\ mMask = <<TRUE, FALSE, TRUE>>
    /\ mOut.ret = <<"p", "p">>

\* what C6 says wasPruned returns for body statements stmts and builtin names d
PrunedShape(stmts, d) ==
    \/ Len(stmts) = 0
    \/ /\ Len(stmts) = 1
       /\ \/ /\ stmts[1].kind = "Assignment"
             /\ stmts[1].value.kind = "FunctionCall"
             /\ stmts[1].value.functionName.name \notin d
          \/ /\ stmts[1].kind = "ExpressionStatement"
             /\ stmts[1].expression.kind = "FunctionCall"
             /\ stmts[1].expression.functionName.name \notin d

\* C6: every evaluation of wasPruned returns true exactly when the body is
\* empty or is one assignment or expression statement whose expression is a
\* call of a name that is no builtin
C6_PrunedShape ==
    \A k \in 1..Len(pOut) : pOut[k] = PrunedShape(pFun.body.statements, pDialect)

C6_Witness ==
    /\ Len(pOut) >= 2
    /\ Len(pFun.body.statements) = 1
    /\ pFun.body.statements[1].kind = "ExpressionStatement"
    /\ pFun.body.statements[1].expression.kind = "FunctionCall"
    /\ pFun.body.statements[1].expression.functionName.name \in pDialect
    /\ pOut[1] = FALSE /\ pOut[2] = FALSE

\* the mask table holds under the canonical name does not fit list
Misfit(list, table) ==
    /\ last.pre.name \in DOMAIN tblTranslations
    /\ Key \in DOMAIN table
    /\ Len(table[Key]) # Len(list)

\* C7: createReplacement fails exactly when the function's name is no key of the
\* rename table or a mask held under the canonical name has another length
\* than the list it filters; otherwise it returns one new function
C7_FailsExactly ==
    last.outcome # "none" =>
        /\ ~Ok <=> \/ last.pre.name \notin DOMAIN tblTranslations
                   \/ Misfit(last.pre.parameters, tblParameters)
                   \/ Misfit(last.pre.returnVariables, tblReturnVariables)
        /\ Ok => /\ Len(created) = last.idx
                 /\ created[last.idx] = last.newFunction
        /\ ~Ok => Len(created) = last.idx - 1

C7_Witness ==
    /\ Ok
    /\ last.pre.parameters = <<>>
    /\ last.pre.returnVariables = <<>>
    /\ Key \notin DOMAIN tblParameters
    /\ Key \notin DOMAIN tblReturnVariables

\* C8 as stated: the returned function bears the canonical name found in the
\* rename table, that name is the name the original function bore before the
\* call, both tables are consulted under it alone, and the location is kept
C8_Original ==
    Ok => /\ last.newFunction.name = Key
          /\ last.newFunction.name = last.pre.name
          /\ last.keys = {Key}
          /\ last.newFunction.location = last.pre.location

\* C8: the returned function bears the canonical name the rename table holds
\* for the original function's name, both tables are consulted under that name
\* alone, and the returned function carries the original's location; the name
\* the original bore before the call is the rename table's key and stays with
\* the stub
C8_CanonicalName ==
    Ok => /\ last.newFunction.name = Key
          /\ last.keys = {Key}
          /\ last.newFunction.location = last.pre.location
          /\ Stub.name = last.pre.name

C8_Witness ==
    /\ Ok
    /\ last.pre.name = Nm("f", 1)
    /\ last.newFunction.name = Nm("f", 0)
    /\ Nm("f", 0) \in DOMAIN tblParameters
    /\ Nm("g", 0) \in DOMAIN tblParameters

\* C9: a successful call moves the body unchanged into the returned function
\* and leaves in the stub only the forwarding statement; the stub keeps its
\* name and location
C9_BodyMoved ==
    Ok => /\ last.newFunction.body = last.pre.body
          /\ Len(Stub.body.statements) = 1
          /\ Stub.body.statements[1] \notin Range(last.pre.body.statements)
          /\ StubCall.functionName.name = last.newFunction.name
          /\ Stub.name = last.pre.name
          /\ Stub.location = last.pre.location

C9_Witness ==
    /\ Ok
    /\ Len(last.pre.body.statements) = 2
    /\ Len(last.newFunction.body.statements) = 2

\* C10: a failing call leaves the function as it was before the call, and on a
\* rename-table miss the dispenser has been asked for no name
C10_FailureLeavesOld ==
    last.outcome \in {"renameMiss", "maskMismatch"} =>
        /\ Stub = last.pre
        /\ last.outcome = "renameMiss" =>
              /\ usedNames = last.usedBefore
              /\ last.requested = 0

C10_Witness ==
    /\ last.outcome = "maskMismatch"
    /\ Len(last.pre.parameters) = 2
    /\ Key \in DOMAIN tblParameters /\ tblParameters[Key] = <<TRUE, FALSE>>
    /\ Misfit(last.pre.returnVariables, tblReturnVariables)
    /\ usedNames # last.usedBefore

====
